---- MODULE Spec2Model ----
(***************************************************************************)
(* Model of sumi (src/src/main.rs): the generator that reads a JSON ABI     *)
(* description, selects the functions to wrap, computes their selectors,   *)
(* maps their input types and renders the ink! module template.            *)
(*                                                                         *)
(* Text is modelled as Rust models it: a String is its sequence of UTF-8   *)
(* bytes.  Every literal below carries the text it spells as a comment.    *)
(***************************************************************************)
EXTENDS Integers, Sequences, FiniteSets, TLC

VARIABLES pc, input, buf, out_opt, dest, module_name, evm_id, parsed, functions,
          rendered, outcome, diag, ty, ty_result, fmt_value, fmt_result

vars == <<pc, input, buf, out_opt, dest, module_name, evm_id, parsed, functions,
          rendered, outcome, diag, ty, ty_result, fmt_value, fmt_result>>

-----------------------------------------------------------------------------
(* Bounds of the model *)

\* longest interface description (number of entries of the JSON array)
MaxEntries == 2
\* nesting depth of the ParamType values given to convert_type
MaxDepth == 2
\* longest string value given to the capitalize formatter
MaxLen == 3

-----------------------------------------------------------------------------
(* Text literals *)

T_bool == <<98, 111, 111, 108>>                                 \* "bool"
T_H160 == <<72, 49, 54, 48>>                                    \* "H160"
T_U256 == <<85, 50, 53, 54>>                                    \* "U256"
T_VecU8 == <<86, 101, 99, 60, 117, 56, 62>>                     \* "Vec<u8>"
T_VecOpen == <<86, 101, 99, 60>>                                \* "Vec<"
T_Gt == <<62>>                                                  \* ">"
T_U8Open == <<91, 117, 56, 59, 32>>                             \* "[u8; "
T_SemiSp == <<59, 32>>                                          \* "; "
T_RBracket == <<93>>                                            \* "]"
T_LBracket == <<91>>                                            \* "["
T_LParen == <<40>>                                              \* "("
T_RParen == <<41>>                                              \* ")"
T_CommaSp == <<44, 32>>                                         \* ", "
T_Comma == <<44>>                                               \* ","
T_null == <<110, 117, 108, 108>>                                \* "null"
T_Underscore == <<95>>                                          \* "_"
T_SELECTOR == <<95, 83, 69, 76, 69, 67, 84, 79, 82>>            \* "_SELECTOR"
T_encode == <<95, 101, 110, 99, 111, 100, 101>>                 \* "_encode"
T_function == <<102, 117, 110, 99, 116, 105, 111, 110>>         \* "function"
T_event == <<101, 118, 101, 110, 116>>                          \* "event"
T_view == <<118, 105, 101, 119>>                                \* "view"
T_nonpayable == <<110, 111, 110, 112, 97, 121, 97, 98, 108, 101>> \* "nonpayable"
T_address == <<97, 100, 100, 114, 101, 115, 115>>               \* "address"
T_uint256 == <<117, 105, 110, 116, 50, 53, 54>>                 \* "uint256"
T_string == <<115, 116, 114, 105, 110, 103>>                    \* "string"
T_int8 == <<105, 110, 116, 56>>                                 \* "int8"
T_uintx == <<117, 105, 110, 116, 120>>                          \* "uintx"
T_boolArr3 == <<98, 111, 111, 108, 91, 93, 91, 51, 93>>         \* "bool[][3]"
T_bytes == <<98, 121, 116, 101, 115>>                           \* "bytes"
T_uint == <<117, 105, 110, 116>>                                \* "uint"
T_int == <<105, 110, 116>>                                      \* "int"
T_tuple == <<116, 117, 112, 108, 101>>                          \* "tuple"
T_transfer == <<116, 114, 97, 110, 115, 102, 101, 114>>         \* "transfer"
T_approve == <<97, 112, 112, 114, 111, 118, 101>>               \* "approve"
T_burn == <<98, 117, 114, 110>>                                 \* "burn"
T_pause == <<112, 97, 117, 115, 101>>                           \* "pause"
T_mint == <<109, 105, 110, 116>>                                \* "mint"
T_balanceOf == <<98, 97, 108, 97, 110, 99, 101, 79, 102>>       \* "balanceOf"
T_setName == <<115, 101, 116, 78, 97, 109, 101>>                \* "setName"
T_flags == <<102, 108, 97, 103, 115>>                           \* "flags"
T_Transfer == <<84, 114, 97, 110, 115, 102, 101, 114>>          \* "Transfer"
T_to == <<116, 111>>                                            \* "to"
T_amount == <<97, 109, 111, 117, 110, 116>>                     \* "amount"
T_erc20 == <<101, 114, 99, 50, 48>>                             \* "erc20"
T_old == <<111, 108, 100>>                                      \* "old"
T_0x0F == <<48, 120, 48, 70>>                                   \* "0x0F"
T_ColonSp == <<58, 32>>                                         \* ": "
T_Newline == <<10>>                                             \* "\n"
T_HexDigits == <<48, 49, 50, 51, 52, 53, 54, 55, 56, 57, 97, 98, 99, 100, 101, 102>> \* "0123456789abcdef"

-----------------------------------------------------------------------------
(* Text helpers *)

IsLower(c) == c >= 97 /\ c <= 122
IsUpper(c) == c >= 65 /\ c <= 90
IsDigit(c) == c >= 48 /\ c <= 57
ToUpperByte(c) == IF IsLower(c) THEN c - 32 ELSE c
ToLowerByte(c) == IF IsUpper(c) THEN c + 32 ELSE c
to_uppercase(s) == [i \in 1..Len(s) |-> ToUpperByte(s[i])]
to_lowercase(s) == [i \in 1..Len(s) |-> ToLowerByte(s[i])]

\* itertools join: the items separated by sep
RECURSIVE join(_, _)
join(items, sep) ==
  IF Len(items) = 0 THEN <<>>
  ELSE IF Len(items) = 1 THEN items[1]
  ELSE items[1] \o sep \o join(Tail(items), sep)

\* Display of a usize: its decimal digits
RECURSIVE DecStr(_)
DecStr(n) == IF n < 10 THEN <<48 + n>> ELSE DecStr(n \div 10) \o <<48 + (n % 10)>>

-----------------------------------------------------------------------------
(* ethabi::ParamType and convert_type *)

PBool == [tag |-> "Bool"]
PAddress == [tag |-> "Address"]
PBytes == [tag |-> "Bytes"]
PString == [tag |-> "String"]
PUint(n) == [tag |-> "Uint", size |-> n]
PInt(n) == [tag |-> "Int", size |-> n]
PFixedBytes(n) == [tag |-> "FixedBytes", size |-> n]
PArray(t) == [tag |-> "Array", inner |-> t]
PFixedArray(t, n) == [tag |-> "FixedArray", inner |-> t, size |-> n]
PTuple(ts) == [tag |-> "Tuple", items |-> ts]

\* a returned value, and the panic of todo!() / unwrap()
Ok(v) == [ok |-> TRUE, v |-> v]
Panic(why, what) == [ok |-> FALSE, why |-> why, what |-> what]

\* the first panic among the results, if any
FirstPanic(rs) == rs[CHOOSE i \in 1..Len(rs) : ~rs[i].ok /\ \A j \in 1..(i - 1) : rs[j].ok]
AllOk(rs) == \A i \in 1..Len(rs) : rs[i].ok
Values(rs) == [i \in 1..Len(rs) |-> rs[i].v]

convert_type_comma(items) == join(items, T_Comma)
convert_type_join(items) == join(items, T_CommaSp)

convert_type_uint_sized(size) == <<85>> \o DecStr(size)
convert_type_uint(size) == T_U256

RECURSIVE convert_type(_)
convert_type(t) ==
  CASE t.tag = "Bool" -> Ok(T_bool)
    [] t.tag = "Address" -> Ok(T_H160)
    [] t.tag \in {"Array", "FixedArray"} ->
         LET r == convert_type(t.inner)
         IN  IF ~r.ok THEN r
             ELSE IF t.tag = "Array" THEN Ok(T_VecOpen \o r.v \o T_Gt)
             ELSE Ok(T_LBracket \o r.v \o T_SemiSp \o DecStr(t.size) \o T_RBracket)
    [] t.tag = "Tuple" ->
         LET rs == [i \in 1..Len(t.items) |-> convert_type(t.items[i])]
         IN  IF AllOk(rs) THEN Ok(T_LParen \o convert_type_join(Values(rs)) \o T_RParen)
             ELSE FirstPanic(rs)
    [] t.tag = "Uint" -> Ok(convert_type_uint(t.size))
    [] t.tag = "FixedBytes" -> Ok(T_U8Open \o DecStr(t.size) \o T_RBracket)
    [] t.tag = "Bytes" -> Ok(T_VecU8)
    [] OTHER -> Panic("todo", t)

-----------------------------------------------------------------------------
(* ethabi::param_type::Reader::read: the ABI type grammar *)

Err(what) == [ok |-> FALSE, why |-> "err", what |-> what]

StartsWith(s, p) == Len(s) >= Len(p) /\ SubSeq(s, 1, Len(p)) = p
DropFirst(s, n) == SubSeq(s, n + 1, Len(s))

RECURSIVE DecVal(_)
DecVal(s) == IF Len(s) = 0 THEN 0 ELSE 10 * DecVal(SubSeq(s, 1, Len(s) - 1)) + (s[Len(s)] - 48)

\* str::parse::<usize>
ParseUsize(s) ==
  IF Len(s) > 0 /\ \A i \in 1..Len(s) : IsDigit(s[i]) THEN Ok(DecVal(s)) ELSE Err(s)

\* the components of a tuple signature: the text between the outer
\* parentheses, cut at the commas that are not inside a nested tuple
RECURSIVE SplitTop(_, _, _, _)
SplitTop(s, i, depth, start) ==
  IF i > Len(s) THEN (IF start > Len(s) THEN <<>> ELSE <<SubSeq(s, start, Len(s))>>)
  ELSE LET cut == s[i] = 44 /\ depth = 0
           nested == IF s[i] = 40 THEN depth + 1 ELSE IF s[i] = 41 THEN depth - 1 ELSE depth
       IN  (IF cut THEN <<SubSeq(s, start, i - 1)>> ELSE <<>>)
             \o SplitTop(s, i + 1, nested, IF cut THEN i + 1 ELSE start)

\* position of the last "[" before the final "]", 0 when there is none
LastOpen(s) ==
  LET opens == {i \in 1..(Len(s) - 1) : s[i] = 91}
  IN  IF opens = {} THEN 0 ELSE CHOOSE i \in opens : \A j \in opens : j <= i

RECURSIVE Reader_read(_)
Reader_read(name) ==
  IF Len(name) > 0 /\ name[Len(name)] = 41 THEN
    IF name[1] # 40 THEN Err(name)
    ELSE LET rs == LET parts == SplitTop(SubSeq(name, 2, Len(name) - 1), 1, 0, 1)
                   IN  [i \in 1..Len(parts) |-> Reader_read(parts[i])]
         IN  IF AllOk(rs) THEN Ok(PTuple(Values(rs))) ELSE FirstPanic(rs)
  ELSE IF Len(name) > 0 /\ name[Len(name)] = 93 THEN
    LET open == LastOpen(name)
        num == SubSeq(name, open + 1, Len(name) - 1)
        len == ParseUsize(num)
        sub == Reader_read(SubSeq(name, 1, open - 1))
    IN  IF Len(num) = 0 THEN
          IF open = 0 THEN Panic("slice", name)
          ELSE IF sub.ok THEN Ok(PArray(sub.v)) ELSE sub
        ELSE IF ~len.ok THEN len
        ELSE IF open = 0 THEN Panic("slice", name)
        ELSE IF sub.ok THEN Ok(PFixedArray(sub.v, len.v)) ELSE sub
  ELSE
    CASE name = T_address -> Ok(PAddress)
      [] name = T_bytes -> Ok(PBytes)
      [] name = T_bool -> Ok(PBool)
      [] name = T_string -> Ok(PString)
      [] name = T_int -> Ok(PInt(256))
      [] name = T_tuple -> Ok(PTuple(<<>>))
      [] name = T_uint -> Ok(PUint(256))
      [] OTHER ->
           LET prefix == IF StartsWith(name, T_int) THEN T_int
                         ELSE IF StartsWith(name, T_uint) THEN T_uint
                         ELSE IF StartsWith(name, T_bytes) THEN T_bytes
                         ELSE <<>>
               len == ParseUsize(DropFirst(name, Len(prefix)))
           IN  IF prefix = <<>> THEN Ok(PUint(8))
               ELSE IF ~len.ok THEN len
               ELSE IF prefix = T_int THEN Ok(PInt(len.v))
               ELSE IF prefix = T_uint THEN Ok(PUint(len.v))
               ELSE Ok(PFixedBytes(len.v))

\* Result::unwrap: the value, or a panic on Err
unwrap(r) == IF r.ok THEN r ELSE IF r.why = "err" THEN Panic("unwrap", r.what) ELSE r

-----------------------------------------------------------------------------
(* json::JsonValue *)

Null == [k |-> "null"]
JStr(s) == [k |-> "string", v |-> s]
JArr(a) == [k |-> "array", v |-> a]
JObj(f) == [k |-> "object", v |-> f]

\* value["key"]: Null when the value is no object or has no such key
Member(j, key) == IF j.k = "object" /\ key \in DOMAIN j.v THEN j.v[key] ELSE Null
\* value.members(): the items of an array, nothing for any other value
members(j) == IF j.k = "array" THEN j.v ELSE <<>>
\* value == "text"
EqStr(j, s) == j.k = "string" /\ j.v = s
\* value.as_str()
as_str(j) == IF j.k = "string" THEN Ok(j.v) ELSE [ok |-> FALSE, why |-> "err", what |-> j.k]
\* value.to_string(): strings print as their text, null as "null"
to_string(j) == IF j.k = "string" THEN j.v ELSE T_null

-----------------------------------------------------------------------------
(* convert_case: Casing::to_case for Case::Snake and Case::UpperSnake *)

IsDelim(c) == c = 95 \/ c = 45 \/ c = 32

\* a word ends after position i: at a delimiter, between a lowercase and an
\* uppercase letter, and before the last capital of an acronym
BoundaryAfter(s, i) ==
  /\ i < Len(s)
  /\ \/ IsLower(s[i]) /\ IsUpper(s[i + 1])
     \/ IsUpper(s[i]) /\ IsUpper(s[i + 1]) /\ i + 2 <= Len(s) /\ IsLower(s[i + 2])

RECURSIVE SplitWords(_, _, _)
SplitWords(s, i, start) ==
  IF i > Len(s) THEN (IF start > Len(s) THEN <<>> ELSE <<SubSeq(s, start, Len(s))>>)
  ELSE LET word == IF IsDelim(s[i]) THEN (IF start < i THEN <<SubSeq(s, start, i - 1)>> ELSE <<>>)
                   ELSE IF BoundaryAfter(s, i) THEN <<SubSeq(s, start, i)>>
                   ELSE <<>>
           cut == IsDelim(s[i]) \/ BoundaryAfter(s, i)
       IN  word \o SplitWords(s, i + 1, IF cut THEN i + 1 ELSE start)

Words(s) == SplitWords(s, 1, 1)

snake(s) == LET w == Words(s) IN join([i \in 1..Len(w) |-> to_lowercase(w[i])], T_Underscore)
upper_snake(s) == LET w == Words(s) IN join([i \in 1..Len(w) |-> to_uppercase(w[i])], T_Underscore)

-----------------------------------------------------------------------------
(* The capitalize formatter *)

\* str::is_char_boundary(1): the start of a UTF-8 character, or the end
IsCharBoundary1(s) == Len(s) = 1 \/ (Len(s) > 1 /\ ~(s[2] >= 128 /\ s[2] <= 191))

\* a template value handed to a formatter: a string or something else
capitalize(value) ==
  IF value.k = "string" THEN
    IF ~IsCharBoundary1(value.v) THEN Panic("split_at", value.v)
    ELSE Ok(to_uppercase(SubSeq(value.v, 1, 1)) \o DropFirst(value.v, 1))
  ELSE Err(value.k)

-----------------------------------------------------------------------------
(* sha3::Keccak256 and hex::encode_hex *)

\* A 64-bit lane is the set of the positions of its 1 bits (0 = least
\* significant); the sponge state is the sequence of its 25 lanes, lane
\* (cx, cy) at index cx + 5 * cy + 1.
Strict(s) == s \o <<>>
Xor(a, b) == (a \ b) \cup (b \ a)
Rot(a, n) == {(i + n) % 64 : i \in a}

RhoOffsets == << 0, 1, 62, 28, 27,  36, 44, 6, 55, 20,  3, 10, 43, 25, 39,
                 41, 45, 15, 21, 8,  18, 2, 61, 56, 14 >>

RoundConstants ==
  << {0}, {1, 7, 15}, {1, 3, 7, 15, 63}, {15, 31, 63}, {0, 1, 3, 7, 15}, {0, 31},
     {0, 7, 15, 31, 63}, {0, 3, 15, 63}, {1, 3, 7}, {3, 7}, {0, 3, 15, 31}, {1, 3, 31},
     {0, 1, 3, 7, 15, 31}, {0, 1, 3, 7, 63}, {0, 3, 7, 15, 63}, {0, 1, 15, 63},
     {1, 15, 63}, {7, 63}, {1, 3, 15}, {1, 3, 31, 63}, {0, 7, 15, 31, 63}, {7, 15, 63},
     {0, 31}, {3, 15, 31, 63} >>

Lane(A, cx, cy) == A[(cx % 5) + 5 * (cy % 5) + 1]

\* one round of Keccak-f[1600]: theta, rho and pi, chi, iota
KeccakRound(A, rc) ==
  LET C == Strict([c \in 1..5 |->
              Xor(Xor(Xor(Xor(Lane(A, c - 1, 0), Lane(A, c - 1, 1)), Lane(A, c - 1, 2)),
                      Lane(A, c - 1, 3)), Lane(A, c - 1, 4))])
      D == Strict([c \in 1..5 |-> Xor(C[((c + 3) % 5) + 1], Rot(C[(c % 5) + 1], 1))])
      T == Strict([i \in 1..25 |-> Xor(A[i], D[((i - 1) % 5) + 1])])
      B == Strict([i \in 1..25 |->
              LET bx == (i - 1) % 5
                  by == (i - 1) \div 5
                  ax == (bx + 3 * by) % 5
              IN  Rot(Lane(T, ax, bx), RhoOffsets[ax + 5 * bx + 1])])
      E == Strict([i \in 1..25 |->
              LET bx == (i - 1) % 5
                  by == (i - 1) \div 5
              IN  Xor(B[i], Lane(B, bx + 2, by) \ Lane(B, bx + 1, by))])
  IN  Strict([i \in 1..25 |-> IF i = 1 THEN Xor(E[1], rc) ELSE E[i]])

RECURSIVE KeccakF(_, _)
KeccakF(A, r) ==
  IF r > Len(RoundConstants) THEN A
  ELSE LET N == KeccakRound(A, RoundConstants[r])
       IN  IF Len(N) = 25 THEN KeccakF(N, r + 1) ELSE N

\* bytes absorbed per permutation: (1600 - 2 * 256) / 8
Rate == 136

Pow2(b) == CASE b = 0 -> 1 [] b = 1 -> 2 [] b = 2 -> 4 [] b = 3 -> 8
             [] b = 4 -> 16 [] b = 5 -> 32 [] b = 6 -> 64 [] b = 7 -> 128
Bit(v, b) == (v \div Pow2(b)) % 2 = 1

\* multi-rate padding with a given domain byte, up to a multiple of the rate
PadWith(msg, first) ==
  LET q == Rate - (Len(msg) % Rate)
  IN  IF q = 1 THEN msg \o <<first + 128>>
      ELSE msg \o <<first>> \o [i \in 1..(q - 2) |-> 0] \o <<128>>

\* the SHA3-256 domain byte
PadSha3(msg) == PadWith(msg, 6)
\* the Keccak-256 domain byte
Pad(msg) == PadWith(msg, 1)

\* lane i of the block at offset off, read little-endian
BlockLane(m, off, i) == {j \in 0..63 : Bit(m[off + 8 * (i - 1) + (j \div 8) + 1], j % 8)}

RECURSIVE Absorb(_, _, _)
Absorb(A, m, off) ==
  IF off >= Len(m) THEN A
  ELSE LET N == KeccakF(Strict([i \in 1..25 |->
                     IF i <= Rate \div 8 THEN Xor(A[i], BlockLane(m, off, i)) ELSE A[i]]), 1)
       IN  IF Len(N) = 25 THEN Absorb(N, m, off + Rate) ELSE N

ByteOf(lane, b) ==
  LET v(i) == IF 8 * b + i \in lane THEN Pow2(i) ELSE 0
  IN  v(0) + v(1) + v(2) + v(3) + v(4) + v(5) + v(6) + v(7)

\* the 32 bytes of the Keccak-256 digest of msg
Digest(msg) ==
  LET A == Absorb([i \in 1..25 |-> {}], Pad(msg), 0)
  IN  Strict([b \in 1..32 |-> ByteOf(A[((b - 1) \div 8) + 1], (b - 1) % 8)])

\* encode_hex: two lowercase hexadecimal digits per byte, high nibble first
encode_hex(bytes) ==
  join([i \in 1..Len(bytes) |-> <<T_HexDigits[(bytes[i] \div 16) + 1], T_HexDigits[(bytes[i] % 16) + 1]>>], <<>>)

-----------------------------------------------------------------------------
(* main: selecting and describing the functions (lines 243-283) *)

is_function(item) == EqStr(Member(item, "type"), T_function)
any_mutability(item) == TRUE
not_view(item) == ~EqStr(Member(item, "stateMutability"), T_view)
single_bool_output(item) ==
  LET outs == members(Member(item, "outputs"))
  IN  Len(outs) = 1 /\ EqStr(Member(outs[1], "type"), T_bool)
outputs_all_bool(item) ==
  LET outs == members(Member(item, "outputs"))
  IN  \A i \in 1..Len(outs) : EqStr(Member(outs[i], "type"), T_bool)

\* the three filters of the chain
passes_filters(item) == is_function(item) /\ not_view(item) /\ outputs_all_bool(item)

\* Iterator::filter keeps the passing items in their order
RECURSIVE filter(_)
filter(items) ==
  IF Len(items) = 0 THEN <<>>
  ELSE (IF passes_filters(Head(items)) THEN <<Head(items)>> ELSE <<>>) \o filter(Tail(items))

\* the closure over one input of a function (lines 251-261)
describe_input(m) ==
  LET raw == unwrap(as_str(Member(m, "type")))
  IN  IF ~raw.ok THEN raw
      ELSE LET param_type == unwrap(Reader_read(raw.v))
           IN  IF ~param_type.ok THEN param_type
               ELSE LET converted == convert_type(param_type.v)
                    IN  IF ~converted.ok THEN converted
                        ELSE Ok([name |-> to_string(Member(m, "name")),
                                 evm_type |-> raw.v,
                                 rust_type |-> converted.v])

selector_text_rust(function_name, inputs) ==
  function_name \o T_LParen \o join([i \in 1..Len(inputs) |-> inputs[i].rust_type], T_Comma) \o T_RParen
\* format!("{name}({args})") over the raw types of the inputs (lines 265-268)
selector_text(function_name, inputs) ==
  function_name \o T_LParen \o join([i \in 1..Len(inputs) |-> inputs[i].evm_type], T_Comma) \o T_RParen

selector_bytes_last(digest) == SubSeq(digest, 29, 32)
\* selector_hash[0..=3] (line 273)
selector_bytes(digest) == SubSeq(digest, 1, 4)

\* the descriptions of the inputs of an entry, or their panics
describe_inputs(function) ==
  LET ins == members(Member(function, "inputs"))
  IN  [i \in 1..Len(ins) |-> describe_input(ins[i])]

(* The entries the interface descriptions of the runs are made of *)

Param(name, type) == JObj([name |-> JStr(name), type |-> JStr(type)])
Out(type) == JObj([type |-> JStr(type)])
Entry(type, name, mutability, ins, outs) ==
  JObj([type |-> JStr(type), name |-> JStr(name), stateMutability |-> JStr(mutability),
        inputs |-> JArr(ins), outputs |-> JArr(outs)])
Without(obj, keys) == JObj([key \in (DOMAIN obj.v) \ keys |-> obj.v[key]])

E_transfer == Entry(T_function, T_transfer, T_nonpayable,
                    <<Param(T_to, T_address), Param(T_amount, T_uint256)>>, <<Out(T_bool)>>)
E_transfer1 == Entry(T_function, T_transfer, T_nonpayable, <<Param(T_to, T_address)>>, <<Out(T_bool)>>)
E_approve == Entry(T_function, T_approve, T_nonpayable,
                   <<Param(T_to, T_address), Param(T_amount, T_uint256)>>, <<Out(T_bool)>>)
E_view == Entry(T_function, T_balanceOf, T_view, <<Param(T_to, T_address)>>, <<Out(T_bool)>>)
E_mint == Entry(T_function, T_mint, T_nonpayable, <<Param(T_amount, T_uint256)>>, <<Out(T_uint256)>>)
E_flags == Entry(T_function, T_flags, T_nonpayable, <<>>, <<Out(T_bool), Out(T_bool)>>)
E_burn == Without(Entry(T_function, T_burn, T_nonpayable, <<Param(T_amount, T_boolArr3)>>, <<>>),
                  {"outputs"})
E_pause == Without(Entry(T_function, T_pause, T_nonpayable, <<>>, <<>>), {"stateMutability"})
E_setName == Entry(T_function, T_setName, T_nonpayable, <<Param(T_to, T_string)>>, <<Out(T_bool)>>)
E_setInt == Entry(T_function, T_setName, T_nonpayable, <<Param(T_amount, T_int8)>>, <<Out(T_bool)>>)
E_malformed == Entry(T_function, T_setName, T_nonpayable, <<Param(T_amount, T_uintx)>>, <<Out(T_bool)>>)
E_event == Without(Entry(T_event, T_Transfer, T_nonpayable, <<Param(T_to, T_address)>>, <<>>),
                   {"stateMutability", "outputs"})

EntrySet == {E_transfer, E_transfer1, E_approve, E_view, E_mint, E_flags, E_burn, E_pause,
             E_setName, E_setInt, E_malformed, E_event}

\* Digest is a pure function of the signature: the digests of the canonical
\* signatures of the entries above are computed once, any other on demand
Signatures ==
  {selector_text(to_string(Member(e, "name")), Values(describe_inputs(e))) :
     e \in {d \in EntrySet : AllOk(describe_inputs(d))}}
DigestTable == {<<sig, Digest(sig)>> : sig \in Signatures}

\* lines 270-272: Keccak256::new(), update(selector.as_bytes()), finalize()
Memo(table, msg) ==
  IF \E p \in table : p[1] = msg THEN (CHOOSE p \in table : p[1] = msg)[2] ELSE Digest(msg)
Keccak256(msg) == Memo(DigestTable, msg)

\* the closure of map over one selected entry (lines 248-282)
describe(function) ==
  LET rs == describe_inputs(function)
  IN  IF ~AllOk(rs) THEN FirstPanic(rs)
      ELSE LET function_name == to_string(Member(function, "name"))
               selector == selector_text(function_name, Values(rs))
           IN  Ok([name |-> function_name,
                   inputs |-> Values(rs),
                   output |-> T_bool,
                   selector |-> selector,
                   selector_hash |-> encode_hex(selector_bytes(Keccak256(selector)))])

\* the whole chain, collected: the descriptions, or the first panic
map_describe(chosen) == [i \in 1..Len(chosen) |-> describe(chosen[i])]
collected(rs) == IF AllOk(rs) THEN Ok(Values(rs)) ELSE FirstPanic(rs)
collect(document) == collected(map_describe(filter(members(document))))

-----------------------------------------------------------------------------
(* MODULE_TEMPLATE: the slots the template fills, in the order of the text *)

Slot(slot, text) == [slot |-> slot, text |-> text]

RECURSIVE Flatten(_)
Flatten(ss) == IF Len(ss) = 0 THEN <<>> ELSE Head(ss) \o Flatten(Tail(ss))

params(f) == join([i \in 1..Len(f.inputs) |-> f.inputs[i].name \o T_ColonSp \o f.inputs[i].rust_type], T_CommaSp)
arg_names(f) == join([i \in 1..Len(f.inputs) |-> f.inputs[i].name], T_CommaSp)

\* lines 47-50: the selector constants
render_constants(fs) ==
  Flatten([i \in 1..Len(fs) |->
    << Slot("selector", fs[i].selector),
       Slot("const", upper_snake(fs[i].name) \o T_SELECTOR),
       Slot("selector_hash", fs[i].selector_hash) >>])

\* lines 74-99: the message and its encode helper
render_operations(fs) ==
  Flatten([i \in 1..Len(fs) |->
    << Slot("doc", fs[i].name),
       Slot("message", snake(fs[i].name)),
       Slot("message_params", params(fs[i])),
       Slot("output", fs[i].output),
       Slot("encode_call", snake(fs[i].name) \o T_encode),
       Slot("encode_args", arg_names(fs[i])),
       Slot("encode_fn", snake(fs[i].name) \o T_encode),
       Slot("encode_params", params(fs[i])),
       Slot("const_use", upper_snake(fs[i].name) \o T_SELECTOR),
       Slot("tokenize", arg_names(fs[i])) >>])

\* template.render("module", &module) (line 291)
render(name, id, fs) ==
  LET cap == capitalize(JStr(name))
  IN  IF ~cap.ok THEN cap
      ELSE Ok(<< Slot("use", name), Slot("type", cap.v), Slot("ref", cap.v),
                 Slot("evm_id", id), Slot("mod", name) >>
              \o render_constants(fs)
              \o << Slot("storage", cap.v), Slot("impl", cap.v) >>
              \o render_operations(fs))

-----------------------------------------------------------------------------
(* The interface descriptions, destinations and names the runs are given *)

SeqsUpTo(S, n) == UNION {[1..m -> S] : m \in 0..n}

\* what the input option names: a file that cannot be opened, bytes that
\* are no UTF-8 text, text that is no JSON, or a JSON document
InputSet ==
  {[kind |-> "unopenable", doc |-> Null], [kind |-> "unreadable", doc |-> Null],
   [kind |-> "malformed", doc |-> Null], [kind |-> "json", doc |-> Null]}
  \cup {[kind |-> "json", doc |-> JArr(es)] : es \in SeqsUpTo(EntrySet, MaxEntries)}

\* the output option, and the destination before the run: no option
\* (standard output), a path without a file, a path of a file with some
\* content, a path no file can be created at
NoFile == [state |-> "absent", content |-> <<>>]
OldFile == [state |-> "present", content |-> <<Slot("raw", T_old)>>]
DestSet ==
  {<<"none", [file |-> NoFile, stdout |-> <<>>]>>,
   <<"file", [file |-> NoFile, stdout |-> <<>>]>>,
   <<"file", [file |-> OldFile, stdout |-> <<>>]>>,
   <<"file", [file |-> [state |-> "locked", content |-> <<>>], stdout |-> <<>>]>>}

ModuleNames == {T_erc20, <<>>}

NoDiag == [why |-> "none", what |-> <<>>]

-----------------------------------------------------------------------------
(* main, step by step *)

Fail(how, d) ==
  /\ outcome' = how
  /\ diag' = d
  /\ pc' = "exit"

\* line 190: fs::File::open(filename)?
OpenInput ==
  /\ pc = "open_input"
  /\ IF input.kind = "unopenable"
       THEN Fail("err", Err("open"))
       ELSE pc' = "create_output" /\ UNCHANGED <<outcome, diag>>
  /\ UNCHANGED <<input, buf, out_opt, dest, module_name, evm_id, parsed, functions, rendered,
                 ty, ty_result, fmt_value, fmt_result>>

\* fs::File::create: a new empty file, or the existing one truncated
create(file) == [state |-> "present", content |-> <<>>]

\* line 195: fs::File::create(filename)?
CreateOutput ==
  /\ pc = "create_output"
  /\ IF out_opt = "none"
       THEN pc' = "read" /\ UNCHANGED <<outcome, diag, dest>>
       ELSE IF dest.file.state = "locked"
         THEN Fail("err", Err("create")) /\ UNCHANGED dest
         ELSE /\ dest' = [dest EXCEPT !.file = create(@)]
              /\ pc' = "read"
              /\ UNCHANGED <<outcome, diag>>
  /\ UNCHANGED <<input, buf, out_opt, module_name, evm_id, parsed, functions, rendered,
                 ty, ty_result, fmt_value, fmt_result>>

\* line 200: reader.read_to_string(&mut buf)?
ReadInput ==
  /\ pc = "read"
  /\ IF input.kind = "unreadable"
       THEN Fail("err", Err("read")) /\ UNCHANGED buf
       ELSE buf' = input /\ pc' = "parse" /\ UNCHANGED <<outcome, diag>>
  /\ UNCHANGED <<input, out_opt, dest, module_name, evm_id, parsed, functions, rendered,
                 ty, ty_result, fmt_value, fmt_result>>

\* line 202: json::parse(&buf)?
ParseJson ==
  /\ pc = "parse"
  /\ IF buf.kind = "malformed"
       THEN Fail("err", Err("parse")) /\ UNCHANGED parsed
       ELSE parsed' = buf.doc /\ pc' = "collect" /\ UNCHANGED <<outcome, diag>>
  /\ UNCHANGED <<input, buf, out_opt, dest, module_name, evm_id, functions, rendered,
                 ty, ty_result, fmt_value, fmt_result>>

\* lines 243-283: the filter chain, mapped and collected
Collect ==
  /\ pc = "collect"
  /\ \E r \in {collect(parsed)} :
       IF r.ok
         THEN functions' = r.v /\ pc' = "render" /\ UNCHANGED <<outcome, diag>>
         ELSE Fail("panic", r) /\ UNCHANGED functions
  /\ UNCHANGED <<input, buf, out_opt, dest, module_name, evm_id, parsed, rendered,
                 ty, ty_result, fmt_value, fmt_result>>

\* lines 285-291: the module is built and rendered
Render ==
  /\ pc = "render"
  /\ \E r \in {render(module_name, evm_id, functions)} :
       IF r.ok
         THEN rendered' = r.v /\ pc' = "write" /\ UNCHANGED <<outcome, diag>>
         ELSE Fail(IF r.why = "err" THEN "err" ELSE "panic", r) /\ UNCHANGED rendered
  /\ UNCHANGED <<input, buf, out_opt, dest, module_name, evm_id, parsed, functions,
                 ty, ty_result, fmt_value, fmt_result>>

\* lines 292-294: write!(writer, "{}\n", rendered)?, Ok(()), the writer flushed
WriteOutput ==
  /\ pc = "write"
  /\ LET text == rendered \o <<Slot("raw", T_Newline)>>
     IN  IF out_opt = "none"
           THEN dest' = [dest EXCEPT !.stdout = @ \o text]
           ELSE dest' = [dest EXCEPT !.file.content = @ \o text]
  /\ outcome' = "ok"
  /\ pc' = "exit"
  /\ UNCHANGED <<input, buf, out_opt, module_name, evm_id, parsed, functions, rendered, diag,
                 ty, ty_result, fmt_value, fmt_result>>

Init ==
  /\ pc = "open_input"
  /\ input \in InputSet
  /\ buf = [kind |-> "none", doc |-> Null]
  /\ \E d \in DestSet : out_opt = d[1] /\ dest = d[2]
  /\ module_name \in ModuleNames
  /\ evm_id = T_0x0F
  /\ parsed = Null
  /\ functions = <<>>
  /\ rendered = <<>>
  /\ outcome = "running"
  /\ diag = NoDiag
  /\ ty = PBool
  /\ ty_result = NoDiag
  /\ fmt_value = Null
  /\ fmt_result = NoDiag

Next == OpenInput \/ CreateOutput \/ ReadInput \/ ParseJson \/ Collect \/ Render \/ WriteOutput

Spec == Init /\ [][Next]_vars

-----------------------------------------------------------------------------
(* convert_type applied to a ParamType of bounded depth *)

BaseTypes == {PBool, PAddress, PUint(8), PUint(256), PFixedBytes(32), PBytes, PString}
ArraySizes == {3, 12}

RECURSIVE TypesUpTo(_)
TypesUpTo(d) ==
  IF d = 0 THEN BaseTypes
  ELSE LET S == TypesUpTo(d - 1)
       IN  S \cup {PArray(t) : t \in S}
             \cup {PFixedArray(t, n) : t \in S, n \in ArraySizes}
             \cup {PTuple(<<>>)}
             \cup {PTuple(<<t>>) : t \in S}
             \cup {PTuple(<<t, b>>) : t \in S, b \in BaseTypes}

InitType ==
  /\ pc = "convert"
  /\ ty \in TypesUpTo(MaxDepth)
  /\ ty_result = NoDiag
  /\ input = [kind |-> "none", doc |-> Null]
  /\ buf = [kind |-> "none", doc |-> Null]
  /\ out_opt = "none"
  /\ dest = [file |-> NoFile, stdout |-> <<>>]
  /\ module_name = T_erc20
  /\ evm_id = T_0x0F
  /\ parsed = Null
  /\ functions = <<>>
  /\ rendered = <<>>
  /\ outcome = "running"
  /\ diag = NoDiag
  /\ fmt_value = Null
  /\ fmt_result = NoDiag

\* line 254: let converted = convert_type(&param_type)
ConvertType ==
  /\ pc = "convert"
  /\ ty_result' = convert_type(ty)
  /\ pc' = "converted"
  /\ UNCHANGED <<input, buf, out_opt, dest, module_name, evm_id, parsed, functions, rendered,
                 outcome, diag, ty, fmt_value, fmt_result>>

NextType == ConvertType

SpecType == InitType /\ [][NextType]_vars

-----------------------------------------------------------------------------
(* The capitalize formatter applied to a template value *)

\* characters of one, one, one and two bytes: "a", "Z", "2", e-acute, E-acute
Chars == {<<97>>, <<90>>, <<50>>, <<195, 169>>, <<195, 137>>}

FormatValues ==
  {JStr(Flatten(cs)) : cs \in SeqsUpTo(Chars, MaxLen)}
  \cup {Null, [k |-> "bool"], [k |-> "number"], JArr(<<>>)}

InitFormat ==
  /\ pc = "format"
  /\ fmt_value \in FormatValues
  /\ fmt_result = NoDiag
  /\ ty = PBool
  /\ ty_result = NoDiag
  /\ input = [kind |-> "none", doc |-> Null]
  /\ buf = [kind |-> "none", doc |-> Null]
  /\ out_opt = "none"
  /\ dest = [file |-> NoFile, stdout |-> <<>>]
  /\ module_name = T_erc20
  /\ evm_id = T_0x0F
  /\ parsed = Null
  /\ functions = <<>>
  /\ rendered = <<>>
  /\ outcome = "running"
  /\ diag = NoDiag

\* lines 219-229: the formatter the template calls as {name | capitalize}
Capitalize ==
  /\ pc = "format"
  /\ fmt_result' = capitalize(fmt_value)
  /\ pc' = "formatted"
  /\ UNCHANGED <<input, buf, out_opt, dest, module_name, evm_id, parsed, functions, rendered,
                 outcome, diag, ty, ty_result, fmt_value>>

NextFormat == Capitalize

SpecFormat == InitFormat /\ [][NextFormat]_vars

-----------------------------------------------------------------------------
(* Properties *)

T_sig_transfer == <<116, 114, 97, 110, 115, 102, 101, 114, 40, 97, 100, 100, 114, 101, 115, 115, 44, 117, 105, 110, 116, 50, 53, 54, 41>>  \* "transfer(address,uint256)"
T_sig_transfer1 == <<116, 114, 97, 110, 115, 102, 101, 114, 40, 97, 100, 100, 114, 101, 115, 115, 41>>  \* "transfer(address)"
T_sig_approve == <<97, 112, 112, 114, 111, 118, 101, 40, 97, 100, 100, 114, 101, 115, 115, 44, 117, 105, 110, 116, 50, 53, 54, 41>>  \* "approve(address,uint256)"
T_sig_flags == <<102, 108, 97, 103, 115, 40, 41>>               \* "flags()"
T_sig_burn == <<98, 117, 114, 110, 40, 98, 111, 111, 108, 91, 93, 91, 51, 93, 41>>  \* "burn(bool[][3])"
T_sig_pause == <<112, 97, 117, 115, 101, 40, 41>>               \* "pause()"
T_a9059cbb == <<97, 57, 48, 53, 57, 99, 98, 98>>                \* "a9059cbb"
T_1a695230 == <<49, 97, 54, 57, 53, 50, 51, 48>>                \* "1a695230"
T_095ea7b3 == <<48, 57, 53, 101, 97, 55, 98, 51>>               \* "095ea7b3"
T_64cc4aa5 == <<54, 52, 99, 99, 52, 97, 97, 53>>                \* "64cc4aa5"
T_e2a1c037 == <<101, 50, 97, 49, 99, 48, 51, 55>>               \* "e2a1c037"
T_8456cb59 == <<56, 52, 53, 54, 99, 98, 53, 57>>                \* "8456cb59"
T_VecBool3 == <<91, 86, 101, 99, 60, 98, 111, 111, 108, 62, 59, 32, 51, 93>>  \* "[Vec<bool>; 3]"

\* the filter chain has run and has not panicked
Collected == pc \in {"render", "write"} \/ outcome = "ok"

Items == members(parsed)
OutputsOf(item) == members(Member(item, "outputs"))
InputsOf(item) == members(Member(item, "inputs"))

\* the eligibility predicate as the specification states it
Eligible(item) ==
  /\ Member(item, "type") = JStr(T_function)
  /\ Member(item, "stateMutability") # JStr(T_view)
  /\ \A o \in 1..Len(OutputsOf(item)) : Member(OutputsOf(item)[o], "type") = JStr(T_bool)

EligibleIndexes == {i \in 1..Len(Items) : Eligible(Items[i])}
\* the index of the n-th eligible entry
NthEligible(n) == CHOOSE i \in EligibleIndexes : Cardinality({j \in EligibleIndexes : j < i}) = n - 1

\* the description f was made from the entry item
MadeFrom(f, item) ==
  /\ f.name = to_string(Member(item, "name"))
  /\ Len(f.inputs) = Len(InputsOf(item))
  /\ \A j \in 1..Len(f.inputs) :
       /\ JStr(f.inputs[j].evm_type) = Member(InputsOf(item)[j], "type")
       /\ f.inputs[j].name = to_string(Member(InputsOf(item)[j], "name"))

\* C1: the functions selected are exactly the entries that are functions,
\* are not view and have only bool outputs, in the order of the input, none
\* twice and none dropped.
C1_SelectedAreTheEligibleInOrder ==
  Collected =>
    /\ Len(functions) = Cardinality(EligibleIndexes)
    /\ \A n \in 1..Len(functions) : MadeFrom(functions[n], Items[NthEligible(n)])

\* a view function, a function with a bool output and one with a uint256
\* output were given, and one was selected while others were passed over
C1_Witness ==
  /\ Collected
  /\ Len(functions) = 1
  /\ Len(Items) = 2
  /\ EligibleIndexes = {2}
  /\ EqStr(Member(Items[1], "stateMutability"), T_view)

\* C2: an entry with more than one output is never selected.
C2_MultipleOutputsNeverSelected ==
  Collected =>
    \A i \in 1..Len(Items) :
      Len(OutputsOf(Items[i])) > 1 => \A n \in 1..Len(functions) : ~MadeFrom(functions[n], Items[i])

InitialDests == {d[2] : d \in DestSet}

\* C3: a run that ends in failure leaves the output destination as it was.
C3_FailureLeavesDestinationUntouched ==
  outcome \in {"err", "panic"} => dest \in InitialDests

\* the raw type the ABI grammar or convert_type does not accept
Unsupported(raw) ==
  LET r == Reader_read(raw) IN ~r.ok \/ ~convert_type(r.v).ok

HasUnsupportedInput(item) ==
  \E j \in 1..Len(InputsOf(item)) :
    Member(InputsOf(item)[j], "type").k = "string" /\ Unsupported(Member(InputsOf(item)[j], "type").v)

\* C4: an unsupported input type of an eligible function ends the run in an
\* error value, and nothing is rendered or written.
C4_UnsupportedTypeIsAnErrorValue ==
  (pc = "exit" /\ \E i \in EligibleIndexes : HasUnsupportedInput(Items[i])) =>
    /\ outcome = "err"
    /\ rendered = <<>>
    /\ dest.stdout = <<>>

RECURSIVE CommaSpaceSeparated(_)
CommaSpaceSeparated(texts) ==
  IF texts = <<>> THEN <<>>
  ELSE IF Len(texts) = 1 THEN texts[1]
  ELSE CommaSpaceSeparated(SubSeq(texts, 1, Len(texts) - 1)) \o <<44, 32>> \o texts[Len(texts)]

\* the canonical signature of an entry, from its raw texts
RECURSIVE CommaSeparated(_)
CommaSeparated(texts) ==
  IF texts = <<>> THEN <<>>
  ELSE IF Len(texts) = 1 THEN texts[1]
  ELSE CommaSeparated(SubSeq(texts, 1, Len(texts) - 1)) \o <<44>> \o texts[Len(texts)]

CanonicalSignature(item) ==
  to_string(Member(item, "name")) \o <<40>>
    \o CommaSeparated([j \in 1..Len(InputsOf(item)) |-> Member(InputsOf(item)[j], "type").v])
    \o <<41>>

\* C5: the canonical signature of every description is the name, "(", the
\* raw ABI types of the inputs in their order joined by ",", and ")", without
\* whitespace.
C5_SignatureFromRawTypes ==
  Collected =>
    \A n \in 1..Len(functions) :
      /\ n <= Cardinality(EligibleIndexes)
      /\ functions[n].selector = CanonicalSignature(Items[NthEligible(n)])
      /\ \A b \in 1..Len(functions[n].selector) : functions[n].selector[b] # 32

C5_Witness ==
  /\ Collected
  /\ \E n \in 1..Len(functions) :
       /\ functions[n].selector = T_sig_approve
       /\ functions[n].inputs[1].rust_type = T_H160
       /\ functions[n].inputs[2].rust_type = T_U256

\* the selectors an EVM toolchain computes for the signatures of the entries
PublishedSelectors ==
  { <<T_sig_transfer, T_a9059cbb>>, <<T_sig_transfer1, T_1a695230>>,
    <<T_sig_approve, T_095ea7b3>>, <<T_sig_flags, T_64cc4aa5>>,
    <<T_sig_burn, T_e2a1c037>>, <<T_sig_pause, T_8456cb59>> }

IsLowerHex(c) == (c >= 48 /\ c <= 57) \/ (c >= 97 /\ c <= 102)

\* C6: the selector is 8 lowercase hexadecimal characters, the first 4 bytes
\* of the Keccak-256 digest of the canonical signature (a9059cbb for
\* transfer(address,uint256)), and the same for the same signature.
C6_SelectorIsKeccakPrefix ==
  Collected =>
    \A n \in 1..Len(functions) :
      /\ Len(functions[n].selector_hash) = 8
      /\ \A c \in 1..8 : IsLowerHex(functions[n].selector_hash[c])
      /\ \A p \in PublishedSelectors :
           functions[n].selector = p[1] => functions[n].selector_hash = p[2]
      /\ \A m \in 1..Len(functions) :
           functions[m].selector = functions[n].selector
             => functions[m].selector_hash = functions[n].selector_hash

C6_Witness ==
  /\ Collected
  /\ \E n \in 1..Len(functions) :
       functions[n].selector = T_sig_transfer /\ functions[n].selector_hash = T_a9059cbb

RECURSIVE Supported(_)
Supported(t) ==
  CASE t.tag \in {"Bool", "Address", "Uint", "FixedBytes", "Bytes"} -> TRUE
    [] t.tag \in {"Array", "FixedArray"} -> Supported(t.inner)
    [] t.tag = "Tuple" -> \A i \in 1..Len(t.items) : Supported(t.items[i])
    [] OTHER -> FALSE

\* C7: on the supported variants convert_type returns Bool -> "bool",
\* Address -> "H160", Uint(any) -> "U256", FixedBytes(n) -> "[u8; n]",
\* Bytes -> "Vec<u8>", Array(t) -> "Vec<" map(t) ">", FixedArray(t, n) ->
\* "[" map(t) "; n]", Tuple(ts) -> "(" the map of each item joined by ", " ")",
\* at any depth; FixedArray(Array(Bool), 3) gives "[Vec<bool>; 3]".
C7_ConvertTypeEquations ==
  (pc = "converted" /\ Supported(ty)) =>
    /\ ty_result.ok
    /\ ty.tag = "Bool" => ty_result.v = T_bool
    /\ ty.tag = "Address" => ty_result.v = T_H160
    /\ ty.tag = "Uint" => ty_result.v = T_U256
    /\ ty.tag = "FixedBytes" => ty_result.v = T_U8Open \o DecStr(ty.size) \o T_RBracket
    /\ ty.tag = "Bytes" => ty_result.v = T_VecU8
    /\ ty.tag = "Array" => ty_result.v = T_VecOpen \o convert_type(ty.inner).v \o T_Gt
    /\ ty.tag = "FixedArray" =>
         ty_result.v = T_LBracket \o convert_type(ty.inner).v \o T_SemiSp \o DecStr(ty.size) \o T_RBracket
    /\ ty.tag = "Tuple" =>
         ty_result.v = T_LParen
                         \o CommaSpaceSeparated([i \in 1..Len(ty.items) |-> convert_type(ty.items[i]).v])
                         \o T_RParen
    /\ ty = PFixedArray(PArray(PBool), 3) => ty_result.v = T_VecBool3

C7_Witness ==
  /\ pc = "converted"
  /\ ty = PFixedArray(PArray(PBool), 3)
  /\ ty_result = Ok(T_VecBool3)

\* the first character of s in upper case, the rest as it is
UpperFirst(s) ==
  IF Len(s) = 0 THEN s
  ELSE IF s[1] < 128 THEN <<ToUpperByte(s[1])>> \o DropFirst(s, 1)
  ELSE IF SubSeq(s, 1, 2) = <<195, 169>> THEN <<195, 137>> \o DropFirst(s, 2)
  ELSE s

\* C8: capitalize returns any string with its first character in upper
\* case, and fails with an error only on a value that is no string.
C8_CapitalizeAnyString ==
  pc = "formatted" =>
    IF fmt_value.k = "string"
      THEN fmt_result = Ok(UpperFirst(fmt_value.v))
      ELSE ~fmt_result.ok /\ fmt_result.why = "err"

SlotTexts(slot) ==
  LET chosen == SelectSeq(rendered, LAMBDA r : r.slot = slot)
  IN  [i \in 1..Len(chosen) |-> chosen[i].text]

\* C9: every selected function is rendered as one selector constant, one
\* message and one encode helper, in the order of the functions, and no two
\* distinct functions under the same identifier.
C9_OneIdentifierPerFunction ==
  outcome = "ok" =>
    LET consts == SlotTexts("const")
        messages == SlotTexts("message")
        helpers == SlotTexts("encode_fn")
    IN  /\ Len(consts) = Len(functions)
        /\ Len(messages) = Len(functions)
        /\ Len(helpers) = Len(functions)
        /\ \A n \in 1..Len(functions) :
             /\ consts[n] = upper_snake(functions[n].name) \o T_SELECTOR
             /\ messages[n] = snake(functions[n].name)
             /\ helpers[n] = snake(functions[n].name) \o T_encode
        /\ \A n, m \in 1..Len(functions) :
             functions[n] # functions[m] =>
               consts[n] # consts[m] /\ messages[n] # messages[m] /\ helpers[n] # helpers[m]

NoOutputs(item) == Len(OutputsOf(item)) = 0

\* C10: a function that is not view and has no outputs, or no outputs
\* member, is selected and described with the output "bool".
C10_NoOutputsIsSelectedAsBool ==
  Collected =>
    \A i \in 1..Len(Items) :
      ( /\ Member(Items[i], "type") = JStr(T_function)
        /\ Member(Items[i], "stateMutability") # JStr(T_view)
        /\ NoOutputs(Items[i]) )
      => \E n \in 1..Len(functions) :
           MadeFrom(functions[n], Items[i]) /\ functions[n].output = T_bool

\* an entry without the outputs member and one with an empty list have been
\* selected, rendered and written
C10_Witness ==
  /\ outcome = "ok"
  /\ Len(functions) = 2
  /\ Member(Items[1], "outputs") = Null
  /\ Member(Items[2], "outputs") = JArr(<<>>)
  /\ Len(SelectSeq(dest.stdout, LAMBDA r : r.slot = "output" /\ r.text = T_bool)) = 2

====
